---- MODULE Spec2Model ----
(***************************************************************************)
(* A model of the bank_API Django application: the Account and Transaction *)
(* models (models.py) and the create / update / delete views (views.py).   *)
(*                                                                         *)
(* The database is two tables keyed by the auto-assigned primary key.      *)
(* Balances and amounts are integers (the code uses FloatField; rounding   *)
(* of binary floating point is not modelled).                              *)
(*                                                                         *)
(* Two ways into the models are modelled, as the repository uses both:     *)
(*   - the HTTP views, which run a ModelForm (field validation,            *)
(*     Model.clean, uniqueness) and then Model.save;                       *)
(*   - the model API used by tests.py (objects.create, save, delete),      *)
(*     which runs Model.save only.                                         *)
(***************************************************************************)
EXTENDS Integers, FiniteSets, Sequences, TLC

\* ------------------------------------------------------------------ bounds
MaxBalance == 2      \* balances are kept in 0..MaxBalance by the guards
AccountPks == {1, 2} \* the AutoField values Account rows can take
TxnPks == {1, 2}     \* the AutoField values Transaction rows can take
Handlers == {1, 2}   \* concurrent request handlers
MaxReads == 2        \* GET requests a client makes while the handlers run

\* ------------------------------------------------------------ input sets
AccountNumbers == {"A1", "A2"}
TransactionIds == {"T1", "T2"}
BalanceInputs == (0 - 1) .. MaxBalance
AmountInputs == {0 - 1, 1, 2}

\* ------------------------------------------------------ program constants
None == 0                                   \* the pk of an unsaved instance
ACCOUNT_TYPE_CHOICES == {"Savings", "Checking"}
TRANSACTION_TYPE_CHOICES == {"Deposit", "Withdraw"}

VARIABLES
    accounts,        \* table bank_API_account: pk -> row
    transactions,    \* table bank_API_transaction: pk -> row
    nextAccountPk,   \* the next AutoField value of Account
    nextTxnPk,       \* the next AutoField value of Transaction
    last,            \* the last command and what it answered
    pc,              \* per request handler: where it is inside form.save()
    mem              \* per request handler: its in-memory Transaction and Account

vars == <<accounts, transactions, nextAccountPk, nextTxnPk, last, pc, mem>>

\* -------------------------------------------------------------- helpers
Put(f, k, v) == [x \in (DOMAIN f) \cup {k} |-> IF x = k THEN v ELSE f[x]]

Drop(f, ks) == [x \in (DOMAIN f) \ ks |-> f[x]]

\* a handler that holds no request
NoMem == [txnPk |-> None, txn |-> <<>>, account |-> <<>>, status |-> "none", errors |-> {}]

\* ------------------------------------------------------------ Account
Account(number, balance, name, type) ==
    [account_number |-> number, balance |-> balance,
     customer_name |-> name, account_type |-> type]

\* variant: account_number without unique=True
AccountNumberTaken_never(accts, number, pk) == FALSE

\* unique=True on Account.account_number, as seen by a row with primary key pk
AccountNumberTaken(accts, number, pk) ==
    \E p \in DOMAIN accts : p # pk /\ accts[p].account_number = number

\* variant: Account.clean asking a positive balance of every account
Account_clean_always(pk, obj) ==
    IF obj.balance <= 0
    THEN {"Balance must be greater than 0 for new accounts"}
    ELSE {}

\* Account.clean
Account_clean(pk, obj) ==
    IF pk = None /\ obj.balance <= 0
    THEN {"Balance must be greater than 0 for new accounts"}
    ELSE {}

\* the ModelForm of AccountCreateView / AccountUpdateView (fields = '__all__'):
\* required fields, choices, Model.clean, then validate_unique
AccountFormErrors(accts, pk, obj) ==
    (IF obj.account_number = "" THEN {"account_number: required"} ELSE {})
    \cup (IF obj.customer_name = "" THEN {"customer_name: required"} ELSE {})
    \cup (IF obj.account_type \notin ACCOUNT_TYPE_CHOICES
          THEN {"account_type: invalid_choice"} ELSE {})
    \cup Account_clean(pk, obj)
    \cup (IF obj.account_number # "" /\ AccountNumberTaken(accts, obj.account_number, pk)
          THEN {"account_number: unique"} ELSE {})

\* variant: Account.save without its balance check
Account_save_rejects_off(obj) == FALSE

\* the check of Account.save, before super().save()
Account_save_rejects(obj) == obj.balance < 0

\* Account.save: the row written is the whole in-memory object; newPk is the
\* AutoField value an INSERT would take
Account_save(accts, pk, obj, newPk) ==
    IF Account_save_rejects(obj)
    THEN [raised |-> "ValidationError: Balance can not be negative", accounts |-> accts]
    ELSE IF AccountNumberTaken(accts, obj.account_number, pk)
    THEN [raised |-> "IntegrityError", accounts |-> accts]
    ELSE [raised |-> "", accounts |-> Put(accts, IF pk = None THEN newPk ELSE pk, obj)]

\* variant: Account.update_balance adding the amount of a Withdraw
Account_update_balance_sign(obj, txn) ==
    IF txn.transaction_type \in {"Deposit", "Withdraw"}
    THEN [obj EXCEPT !.balance = @ + txn.amount]
    ELSE obj

\* Account.update_balance, up to its self.save()
Account_update_balance(obj, txn) ==
    IF txn.transaction_type = "Deposit"
    THEN [obj EXCEPT !.balance = @ + txn.amount]
    ELSE IF txn.transaction_type = "Withdraw"
    THEN [obj EXCEPT !.balance = @ - txn.amount]
    ELSE obj

\* ---------------------------------------------------------- Transaction
Transaction(id, acct, amount, type, desc, status) ==
    [transaction_id |-> id, account_number |-> acct, amount |-> amount,
     transaction_type |-> type, description |-> desc, status |-> status]

\* variant: transaction_id without unique=True
TransactionIdTaken_never(txns, id, pk) == FALSE

\* unique=True on Transaction.transaction_id, as seen by a row with primary key pk
TransactionIdTaken(txns, id, pk) ==
    \E p \in DOMAIN txns : p # pk /\ txns[p].transaction_id = id

\* the ModelForm of TransactionCreateView / TransactionUpdateView
\* (fields = '__all__'): required fields, the account choice, the type
\* choices, then validate_unique.  The amount is any number.
TransactionFormErrors(accts, txns, pk, txn) ==
    (IF txn.transaction_id = "" THEN {"transaction_id: required"} ELSE {})
    \cup (IF txn.account_number \notin DOMAIN accts
          THEN {"account_number: invalid_choice"} ELSE {})
    \cup (IF txn.transaction_type \notin TRANSACTION_TYPE_CHOICES
          THEN {"transaction_type: invalid_choice"} ELSE {})
    \cup (IF txn.description = "" THEN {"description: required"} ELSE {})
    \cup (IF txn.status = "" THEN {"status: required"} ELSE {})
    \cup (IF txn.transaction_id # "" /\ TransactionIdTaken(txns, txn.transaction_id, pk)
          THEN {"transaction_id: unique"} ELSE {})

\* variant: Transaction.save without the funds check
Transaction_save_rejects_nofunds(txn, acctObj) ==
    IF txn.amount < 0 THEN "ValueError: Amount cannot be negative" ELSE ""

\* variant: Transaction.save without the check of the amount's sign
Transaction_save_rejects_noamount(txn, acctObj) ==
    IF txn.transaction_type = "Withdraw" /\ txn.amount > acctObj.balance
    THEN "ValidationError: Not enough funds in the account"
    ELSE ""

\* variant: Transaction.save refusing a Withdraw of the whole balance
Transaction_save_rejects_strict(txn, acctObj) ==
    IF txn.amount < 0
    THEN "ValueError: Amount cannot be negative"
    ELSE IF txn.transaction_type = "Withdraw" /\ txn.amount >= acctObj.balance
    THEN "ValidationError: Not enough funds in the account"
    ELSE ""

\* the two checks of Transaction.save, against the in-memory account
Transaction_save_rejects(txn, acctObj) ==
    IF txn.amount < 0
    THEN "ValueError: Amount cannot be negative"
    ELSE IF txn.transaction_type = "Withdraw" /\ txn.amount > acctObj.balance
    THEN "ValidationError: Not enough funds in the account"
    ELSE ""

\* super().save() of Transaction.save: the INSERT or UPDATE of the row, under
\* the table's unique and foreign-key constraints
Transaction_write(accts, txns, pk, txn, newPk) ==
    IF TransactionIdTaken(txns, txn.transaction_id, pk)
       \/ txn.account_number \notin DOMAIN accts
    THEN [raised |-> "IntegrityError", transactions |-> txns]
    ELSE [raised |-> "", transactions |-> Put(txns, IF pk = None THEN newPk ELSE pk, txn)]

\* self.account_number.update_balance(self): the balance change and Account.save
Transaction_update_account(accts, txn, acctObj) ==
    Account_save(accts, txn.account_number, Account_update_balance(acctObj, txn), None)

\* variant: Transaction.save calling super().save() before its two checks
Transaction_save_write_first(accts, txns, pk, txn, acctObj, newPk) ==
    LET rejected == Transaction_save_rejects(txn, acctObj)
        w == Transaction_write(accts, txns, pk, txn, newPk)
        u == Transaction_update_account(accts, txn, acctObj)
    IN  IF w.raised # ""
        THEN [raised |-> w.raised, accounts |-> accts, transactions |-> txns]
        ELSE IF rejected # ""
        THEN [raised |-> rejected, accounts |-> accts, transactions |-> w.transactions]
        ELSE [raised |-> u.raised, accounts |-> u.accounts, transactions |-> w.transactions]

\* Transaction.save as one call: checks, row write, balance write.  Each write
\* is committed on its own (autocommit), so a raise after the row write leaves
\* the row.
Transaction_save(accts, txns, pk, txn, acctObj, newPk) ==
    LET rejected == Transaction_save_rejects(txn, acctObj)
        w == Transaction_write(accts, txns, pk, txn, newPk)
        u == Transaction_update_account(accts, txn, acctObj)
    IN  IF rejected # ""
        THEN [raised |-> rejected, accounts |-> accts, transactions |-> txns]
        ELSE IF w.raised # ""
        THEN [raised |-> w.raised, accounts |-> accts, transactions |-> txns]
        ELSE [raised |-> u.raised, accounts |-> u.accounts, transactions |-> w.transactions]

\* Model.delete of a Transaction
Transaction_delete(txns, pk) == Drop(txns, {pk})

\* variant: deleting an Account without its transactions
Account_delete_cascade_none(txns, pk) == txns

\* Model.delete of an Account: on_delete=CASCADE collects its transactions
Account_delete_cascade(txns, pk) ==
    Drop(txns, {t \in DOMAIN txns : txns[t].account_number = pk})

\* get_object_or_404(queryset, account_number=...): the primary keys found
AccountByNumber(accts, number) ==
    {p \in DOMAIN accts : accts[p].account_number = number}

\* variant: a lookup that takes any row when the id is not found
TransactionById_any(txns, id) ==
    IF \E p \in DOMAIN txns : txns[p].transaction_id = id
    THEN {p \in DOMAIN txns : txns[p].transaction_id = id}
    ELSE DOMAIN txns

\* get_object_or_404(queryset, transaction_id=...): the primary keys found
TransactionById(txns, id) ==
    {p \in DOMAIN txns : txns[p].transaction_id = id}

\* ------------------------------------------------------------ responses
\* what a request did: its answer and the tables it leaves
Out(status, errors, accts, txns) ==
    [status |-> status, errors |-> errors, accounts |-> accts, transactions |-> txns]

WithinBounds(out) ==
    /\ DOMAIN out.accounts \subseteq AccountPks
    /\ DOMAIN out.transactions \subseteq TxnPks
    /\ \A p \in DOMAIN out.accounts : out.accounts[p].balance <= MaxBalance

\* no request is being answered
NoRequest ==
    [op |-> "none", args |-> <<>>, status |-> "none", errors |-> {},
     accounts |-> <<>>, transactions |-> <<>>]

\* the tables and the AutoField counters after a request; its answer is kept
\* in last, with the request and the tables as the request found them.  (Each
\* request below is taken when the previous one has been answered.)
Commit(op, args, out) ==
    /\ WithinBounds(out)
    /\ accounts' = out.accounts
    /\ transactions' = out.transactions
    /\ nextAccountPk' = IF nextAccountPk \in DOMAIN out.accounts
                        THEN nextAccountPk + 1 ELSE nextAccountPk
    /\ nextTxnPk' = IF nextTxnPk \in DOMAIN out.transactions
                    THEN nextTxnPk + 1 ELSE nextTxnPk
    /\ last' = [op |-> op, args |-> args, status |-> out.status, errors |-> out.errors,
                accounts |-> accounts, transactions |-> transactions]

\* the answer is handed to the caller
Return ==
    /\ last # NoRequest
    /\ last' = NoRequest
    /\ UNCHANGED <<accounts, transactions, nextAccountPk, nextTxnPk, pc, mem>>

\* ------------------------------------------------------------------ Init
Init ==
    /\ accounts = <<>>
    /\ transactions = <<>>
    /\ nextAccountPk = 1
    /\ nextTxnPk = 1
    /\ last = NoRequest
    /\ pc = [h \in Handlers |-> "idle"]
    /\ mem = [h \in Handlers |-> NoMem]

\* ------------------------------------------------ the views, one request each
\* AccountCreateView.post: form_invalid -> 400, form_valid -> form.save() -> 201
AccountCreateView_post(accts, txns, newPk, obj) ==
    LET errors == AccountFormErrors(accts, None, obj)
        s == Account_save(accts, None, obj, newPk)
    IN  IF errors # {} THEN Out("400", errors, accts, txns)
        ELSE IF s.raised # "" THEN Out("raised", {s.raised}, accts, txns)
        ELSE Out("201", {}, s.accounts, txns)

AccountCreateView(obj) ==
    /\ last = NoRequest
    /\ \E out \in {AccountCreateView_post(accounts, transactions, nextAccountPk, obj)} :
          Commit("AccountCreateView", [obj |-> obj], out)
    /\ UNCHANGED <<pc, mem>>

\* AccountUpdateView.post on account_update_view/<int:pk>
AccountUpdateView_post(accts, txns, pk, obj) ==
    LET errors == AccountFormErrors(accts, pk, obj)
        s == Account_save(accts, pk, obj, None)
    IN  IF pk \notin DOMAIN accts THEN Out("404", {}, accts, txns)
        ELSE IF errors # {} THEN Out("400", errors, accts, txns)
        ELSE IF s.raised # "" THEN Out("raised", {s.raised}, accts, txns)
        ELSE Out("200", {}, s.accounts, txns)

AccountUpdateView(pk, obj) ==
    /\ last = NoRequest
    /\ \E out \in {AccountUpdateView_post(accounts, transactions, pk, obj)} :
          Commit("AccountUpdateView", [pk |-> pk, obj |-> obj], out)
    /\ UNCHANGED <<pc, mem>>

\* AccountDeleteView.post on account_delete_view/<str:account_number>
AccountDeleteView_post(accts, txns, number) ==
    LET found == AccountByNumber(accts, number)
    IN  IF found = {} THEN Out("404", {}, accts, txns)
        ELSE LET pk == CHOOSE p \in found : TRUE
             IN  Out("200", {}, Drop(accts, {pk}), Account_delete_cascade(txns, pk))

AccountDeleteView(number) ==
    /\ last = NoRequest
    /\ \E out \in {AccountDeleteView_post(accounts, transactions, number)} :
          Commit("AccountDeleteView", [account_number |-> number], out)
    /\ UNCHANGED <<pc, mem>>

\* variant: a create view whose form does not resolve the account, on a table
\* without the foreign-key constraint
TransactionCreateView_post_dangling(accts, txns, newPk, txn) ==
    LET errors == TransactionFormErrors(accts, txns, None, txn)
                    \ {"account_number: invalid_choice"}
        r == Transaction_save(accts, txns, None, txn, accts[txn.account_number], newPk)
    IN  IF errors # {} THEN Out("400", errors, accts, txns)
        ELSE IF txn.account_number \notin DOMAIN accts
        THEN Out("201", {}, accts, Put(txns, newPk, txn))
        ELSE IF r.raised # "" THEN Out("raised", {r.raised}, r.accounts, r.transactions)
        ELSE Out("201", {}, r.accounts, r.transactions)

\* TransactionCreateView.post, the whole request in one step
TransactionCreateView_post(accts, txns, newPk, txn) ==
    LET errors == TransactionFormErrors(accts, txns, None, txn)
        r == Transaction_save(accts, txns, None, txn, accts[txn.account_number], newPk)
    IN  IF errors # {} THEN Out("400", errors, accts, txns)
        ELSE IF r.raised # "" THEN Out("raised", {r.raised}, r.accounts, r.transactions)
        ELSE Out("201", {}, r.accounts, r.transactions)

TransactionCreateView(txn) ==
    /\ last = NoRequest
    /\ \E out \in {TransactionCreateView_post(accounts, transactions, nextTxnPk, txn)} :
          Commit("TransactionCreateView", [txn |-> txn], out)
    /\ UNCHANGED <<pc, mem>>

\* variant: an update view that takes the stored transaction's effect back
\* before saving the posted one
TransactionUpdateView_post_net(accts, txns, pk, txn) ==
    LET errors == TransactionFormErrors(accts, txns, pk, txn)
        old == txns[pk]
        back == Put(accts, old.account_number,
                    Account_update_balance(accts[old.account_number],
                                           [old EXCEPT !.amount = 0 - @]))
        r == Transaction_save(back, txns, pk, txn, back[txn.account_number], None)
    IN  IF pk \notin DOMAIN txns THEN Out("404", {}, accts, txns)
        ELSE IF errors # {} THEN Out("400", errors, accts, txns)
        ELSE IF r.raised # "" THEN Out("raised", {r.raised}, accts, txns)
        ELSE Out("200", {}, r.accounts, r.transactions)

\* TransactionUpdateView.post on transaction_update_view/<int:pk>, in one step
TransactionUpdateView_post(accts, txns, pk, txn) ==
    LET errors == TransactionFormErrors(accts, txns, pk, txn)
        r == Transaction_save(accts, txns, pk, txn, accts[txn.account_number], None)
    IN  IF pk \notin DOMAIN txns THEN Out("404", {}, accts, txns)
        ELSE IF errors # {} THEN Out("400", errors, accts, txns)
        ELSE IF r.raised # "" THEN Out("raised", {r.raised}, r.accounts, r.transactions)
        ELSE Out("200", {}, r.accounts, r.transactions)

TransactionUpdateView(pk, txn) ==
    /\ last = NoRequest
    /\ \E out \in {TransactionUpdateView_post(accounts, transactions, pk, txn)} :
          Commit("TransactionUpdateView", [pk |-> pk, txn |-> txn], out)
    /\ UNCHANGED <<pc, mem>>

\* variant: a delete that also takes the transaction's effect back
TransactionDeleteView_post_reversing(accts, txns, id) ==
    LET found == TransactionById(txns, id)
    IN  IF found = {} THEN Out("404", {}, accts, txns)
        ELSE LET pk == CHOOSE p \in found : TRUE
                 a == txns[pk].account_number
                 back == [txns[pk] EXCEPT !.amount = 0 - @]
             IN  Out("200", {}, Put(accts, a, Account_update_balance(accts[a], back)),
                     Transaction_delete(txns, pk))

\* TransactionDeleteView.post on transaction_delete_view/<str:transaction_id>
TransactionDeleteView_post(accts, txns, id) ==
    LET found == TransactionById(txns, id)
    IN  IF found = {} THEN Out("404", {}, accts, txns)
        ELSE LET pk == CHOOSE p \in found : TRUE
             IN  Out("200", {}, accts, Transaction_delete(txns, pk))

TransactionDeleteView(id) ==
    /\ last = NoRequest
    /\ \E out \in {TransactionDeleteView_post(accounts, transactions, id)} :
          Commit("TransactionDeleteView", [transaction_id |-> id], out)
    /\ UNCHANGED <<pc, mem>>

\* ------------------------------------ the model API, as tests.py calls it
\* Account.objects.create(...): Account.save with force_insert, no clean()
Account_objects_create(accts, txns, newPk, obj) ==
    LET s == Account_save(accts, None, obj, newPk)
    IN  IF s.raised # "" THEN Out("raised", {s.raised}, accts, txns)
        ELSE Out("saved", {}, s.accounts, txns)

AccountObjectsCreate(obj) ==
    /\ last = NoRequest
    /\ \E out \in {Account_objects_create(accounts, transactions, nextAccountPk, obj)} :
          Commit("Account.objects.create", [obj |-> obj], out)
    /\ UNCHANGED <<pc, mem>>

\* account.balance = ...; account.save() on a loaded account
Account_set_balance_and_save(accts, txns, pk, balance) ==
    LET s == Account_save(accts, pk, [accts[pk] EXCEPT !.balance = balance], None)
    IN  IF s.raised # "" THEN Out("raised", {s.raised}, accts, txns)
        ELSE Out("saved", {}, s.accounts, txns)

AccountSetBalanceAndSave(pk, balance) ==
    /\ last = NoRequest
    /\ pk \in DOMAIN accounts
    /\ \E out \in {Account_set_balance_and_save(accounts, transactions, pk, balance)} :
          Commit("account.save", [pk |-> pk, balance |-> balance], out)
    /\ UNCHANGED <<pc, mem>>

\* Transaction.objects.create(transaction_id, account_number=<the Account
\* loaded with Account.objects.get>, amount, transaction_type):
\* Account.DoesNotExist from the lookup, else Transaction.save, no form
Transaction_objects_create(accts, txns, newPk, txn) ==
    LET r == Transaction_save(accts, txns, None, txn, accts[txn.account_number], newPk)
    IN  IF txn.account_number \notin DOMAIN accts
        THEN Out("raised", {"Account.DoesNotExist"}, accts, txns)
        ELSE IF r.raised # "" THEN Out("raised", {r.raised}, r.accounts, r.transactions)
        ELSE Out("saved", {}, r.accounts, r.transactions)

TransactionObjectsCreate(txn) ==
    /\ last = NoRequest
    /\ \E out \in {Transaction_objects_create(accounts, transactions, nextTxnPk, txn)} :
          Commit("Transaction.objects.create", [txn |-> txn], out)
    /\ UNCHANGED <<pc, mem>>

\* ------------------------------------------------------ request bodies
\* what is posted to the account views: well-formed bodies, and one body per
\* kind of malformed field
AccountPosts ==
    {Account(n, b, "Jhon Doe", "Savings") : n \in AccountNumbers, b \in BalanceInputs}
    \cup {Account("A1", 1, "", "Savings"), Account("A1", 1, "Jhon Doe", "Cheks")}

\* what is posted to the transaction views
TransactionPosts ==
    {Transaction(id, a, m, t, "Initial Deposit", "Sucess") :
        id \in TransactionIds, a \in AccountPks, m \in AmountInputs,
        t \in TRANSACTION_TYPE_CHOICES}
    \cup {Transaction("T1", 1, 1, "deposit", "Initial Deposit", "Sucess"),
          Transaction("T1", 1, 1, "Deposit", "", "Sucess")}

\* what tests.py passes to Account.objects.create
AccountCreateArgs ==
    {Account(n, b, "Jhon Doe", "Savings") : n \in AccountNumbers, b \in BalanceInputs}

\* what tests.py passes to Transaction.objects.create
TransactionCreateArgs ==
    {Transaction(id, a, m, t, "Initial Deposit", "Sucess") :
        id \in TransactionIds, a \in AccountPks, m \in AmountInputs,
        t \in TRANSACTION_TYPE_CHOICES}
    \cup {Transaction("T1", 1, 1, "deposit", "Initial Deposit", "Sucess")}

\* ---------------------------------------------- requests one after another
Next ==
    \/ \E p \in AccountPosts : AccountCreateView(p)
    \/ \E pk \in AccountPks, p \in AccountPosts : AccountUpdateView(pk, p)
    \/ \E n \in AccountNumbers : AccountDeleteView(n)
    \/ \E p \in TransactionPosts : TransactionCreateView(p)
    \/ \E pk \in TxnPks, p \in TransactionPosts : TransactionUpdateView(pk, p)
    \/ \E id \in TransactionIds : TransactionDeleteView(id)
    \/ \E a \in AccountCreateArgs : AccountObjectsCreate(a)
    \/ \E pk \in AccountPks, b \in BalanceInputs : AccountSetBalanceAndSave(pk, b)
    \/ \E a \in TransactionCreateArgs : TransactionObjectsCreate(a)
    \/ Return

Spec == Init /\ [][Next]_vars

\* ------------------------------------------- requests side by side
\* TransactionCreateView.post taken apart at its database accesses.  Each
\* handler is a thread or worker process serving one request; every query
\* commits on its own (Django's autocommit; the views open no transaction).

\* the tables the handlers start from: two accounts opened through
\* AccountCreateView, no transaction yet.  last keeps these tables.
StartTables ==
    {[pk \in AccountPks |->
        Account(IF pk = 1 THEN "A1" ELSE "A2", b[pk], "Jhon Doe", "Savings")] :
     b \in [AccountPks -> 1 .. MaxBalance]}

InitConcurrent ==
    /\ accounts \in StartTables
    /\ transactions = <<>>
    /\ nextAccountPk = Cardinality(AccountPks) + 1
    /\ nextTxnPk = 1
    /\ last = [op |-> "concurrent", args |-> <<>>, status |-> "none", errors |-> {},
               accounts |-> accounts, transactions |-> <<>>]
    /\ pc = [h \in Handlers |-> "idle"]
    /\ mem = [h \in Handlers |-> NoMem]

Done(h, status, errors) ==
    /\ pc' = [pc EXCEPT ![h] = "done"]
    /\ mem' = [mem EXCEPT ![h].status = status, ![h].errors = errors]

\* get_form / form.is_valid(): the form is checked against the tables as they
\* are now, and the ModelChoiceField loads the Account the handler will use
Begin(h, txn) ==
    /\ pc[h] = "idle"
    /\ LET errors == TransactionFormErrors(accounts, transactions, None, txn)
       IN  IF errors # {}
           THEN /\ pc' = [pc EXCEPT ![h] = "done"]
                /\ mem' = [mem EXCEPT ![h] = [NoMem EXCEPT !.txn = txn, !.status = "400",
                                                           !.errors = errors]]
           ELSE /\ pc' = [pc EXCEPT ![h] = "save"]
                /\ mem' = [mem EXCEPT ![h] = [NoMem EXCEPT !.txn = txn,
                                                !.account = accounts[txn.account_number]]]
    /\ UNCHANGED <<accounts, transactions, nextAccountPk, nextTxnPk, last>>

\* Transaction.save up to super().save(): the checks on the in-memory
\* objects, then the INSERT
Save(h) ==
    /\ pc[h] = "save"
    /\ LET rejected == Transaction_save_rejects(mem[h].txn, mem[h].account)
           w == Transaction_write(accounts, transactions, None, mem[h].txn, nextTxnPk)
       IN  IF rejected # ""
           THEN Done(h, "raised", {rejected}) /\ UNCHANGED <<transactions, nextTxnPk>>
           ELSE IF w.raised # ""
           THEN Done(h, "raised", {w.raised}) /\ UNCHANGED <<transactions, nextTxnPk>>
           ELSE /\ nextTxnPk \in TxnPks
                /\ transactions' = w.transactions
                /\ nextTxnPk' = nextTxnPk + 1
                /\ pc' = [pc EXCEPT ![h] = "update_balance"]
                /\ mem' = [mem EXCEPT ![h].txnPk = nextTxnPk]
    /\ UNCHANGED <<accounts, nextAccountPk, last>>

\* variant: update_balance waiting until no other handler is about to
\* write a balance
UpdateBalance_waits(h) ==
    /\ pc[h] = "update_balance"
    /\ \A g \in Handlers \ {h} : pc[g] # "update_balance"
    /\ LET obj == Account_update_balance(mem[h].account, mem[h].txn)
           s == Account_save(accounts, mem[h].txn.account_number, obj, None)
       IN  /\ accounts' = s.accounts
           /\ pc' = [pc EXCEPT ![h] = "done"]
           /\ mem' = [mem EXCEPT ![h].account = obj,
                                 ![h].status = IF s.raised # "" THEN "raised" ELSE "201",
                                 ![h].errors = IF s.raised # "" THEN {s.raised} ELSE {}]
    /\ UNCHANGED <<transactions, nextAccountPk, nextTxnPk, last>>

\* self.account_number.update_balance(self): the in-memory account is
\* changed and written back whole
UpdateBalance(h) ==
    /\ pc[h] = "update_balance"
    /\ LET obj == Account_update_balance(mem[h].account, mem[h].txn)
           s == Account_save(accounts, mem[h].txn.account_number, obj, None)
       IN  /\ accounts' = s.accounts
           /\ pc' = [pc EXCEPT ![h] = "done"]
           /\ mem' = [mem EXCEPT ![h].account = obj,
                                 ![h].status = IF s.raised # "" THEN "raised" ELSE "201",
                                 ![h].errors = IF s.raised # "" THEN {s.raised} ELSE {}]
    /\ UNCHANGED <<transactions, nextAccountPk, nextTxnPk, last>>

\* the handler dies inside form.save() (worker killed, request aborted):
\* what it has committed stays
Crash(h) ==
    /\ pc[h] \in {"save", "update_balance"}
    /\ pc' = [pc EXCEPT ![h] = "aborted"]
    /\ UNCHANGED <<accounts, transactions, nextAccountPk, nextTxnPk, last, mem>>

\* a client's GET transaction_detail_view/<str:transaction_id>, answered from
\* what is committed at that moment; last.args keeps the client's answers in
\* the order it got them
TransactionDetailView_get(id) ==
    /\ Len(last.args) < MaxReads
    /\ LET found == TransactionById(transactions, id)
           answer == IF found = {}
                     THEN [view |-> "TransactionDetailView", key |-> id, status |-> "404",
                           data |-> <<>>]
                     ELSE [view |-> "TransactionDetailView", key |-> id, status |-> "200",
                           data |-> transactions[CHOOSE p \in found : TRUE]]
       IN  last' = [last EXCEPT !.args = Append(@, answer)]
    /\ UNCHANGED <<accounts, transactions, nextAccountPk, nextTxnPk, pc, mem>>

\* a client's GET account_detail_view/<str:account_number>
AccountDetailView_get(number) ==
    /\ Len(last.args) < MaxReads
    /\ LET found == AccountByNumber(accounts, number)
           answer == IF found = {}
                     THEN [view |-> "AccountDetailView", key |-> number, status |-> "404",
                           data |-> <<>>]
                     ELSE [view |-> "AccountDetailView", key |-> number, status |-> "200",
                           data |-> accounts[CHOOSE p \in found : TRUE]]
       IN  last' = [last EXCEPT !.args = Append(@, answer)]
    /\ UNCHANGED <<accounts, transactions, nextAccountPk, nextTxnPk, pc, mem>>

\* what the concurrent handlers are sent: well-formed bodies
ConcurrentPosts ==
    {Transaction(id, a, m, t, "Initial Deposit", "Sucess") :
        id \in TransactionIds, a \in AccountPks, m \in 1 .. MaxBalance,
        t \in TRANSACTION_TYPE_CHOICES}

NextConcurrent ==
    \/ \E h \in Handlers, p \in ConcurrentPosts : Begin(h, p)
    \/ \E h \in Handlers : Save(h)
    \/ \E h \in Handlers : UpdateBalance(h)
    \/ \E h \in Handlers : Crash(h)
    \/ \E id \in TransactionIds : TransactionDetailView_get(id)
    \/ \E n \in AccountNumbers : AccountDetailView_get(n)

SpecConcurrent == InitConcurrent /\ [][NextConcurrent]_vars

\* the handlers alone, each running on once it has taken a request: a worker
\* thread inside form.save() is not held back by anything but the scheduler,
\* which is taken to be fair to it
NextLive ==
    \/ \E h \in Handlers, p \in ConcurrentPosts : Begin(h, p)
    \/ \E h \in Handlers : Save(h)
    \/ \E h \in Handlers : UpdateBalance(h)

SpecLive ==
    /\ InitConcurrent
    /\ [][NextLive]_vars
    /\ \A h \in Handlers : WF_vars(Save(h)) /\ WF_vars(UpdateBalance(h))

\* ====================================================================
\* Properties
\* ====================================================================
\* the signed amount a ledger entry stands for
Signed(type, amount) == IF type = "Deposit" THEN amount ELSE 0 - amount

Answered(ops) == last.op \in ops

Succeeded == last.status \in {"200", "201", "saved"}

CreateTransactionOps == {"TransactionCreateView", "Transaction.objects.create"}

CreateAccountOps == {"AccountCreateView", "Account.objects.create"}

\* the request left both tables as it found them
TablesUnchanged == accounts = last.accounts /\ transactions = last.transactions

\* C1: in every reachable state every persisted account has balance >= 0.
C1_BalanceNonNegative == \A p \in DOMAIN accounts : accounts[p].balance >= 0

\* a Withdraw of the whole balance has just been committed
C1_Witness ==
    /\ Answered({"TransactionCreateView"}) /\ Succeeded
    /\ last.args.txn.transaction_type = "Withdraw"
    /\ accounts[last.args.txn.account_number].balance = 0
    /\ last.accounts[last.args.txn.account_number].balance > 0

\* C2: a successful createTransaction of a Deposit or Withdraw changes the
\* balance of its account by exactly +amount or -amount (so a run of such
\* commands ends at the opening balance plus the sum of the signed amounts).
C2_CreateAppliesSignedAmount ==
    (/\ Answered(CreateTransactionOps) /\ Succeeded
     /\ last.args.txn.transaction_type \in TRANSACTION_TYPE_CHOICES)
    => LET a == last.args.txn.account_number
       IN  accounts[a].balance
             = last.accounts[a].balance
               + Signed(last.args.txn.transaction_type, last.args.txn.amount)

\* the second of two successful creates on one account: a Deposit then a Withdraw
C2_Witness ==
    /\ Answered(CreateTransactionOps) /\ Succeeded
    /\ last.args.txn.transaction_type = "Withdraw"
    /\ \E t \in DOMAIN last.transactions :
          /\ last.transactions[t].account_number = last.args.txn.account_number
          /\ last.transactions[t].transaction_type = "Deposit"
          /\ t \in DOMAIN transactions

NotEnoughFunds == "ValidationError: Not enough funds in the account"

\* a posted new transaction that breaks no rule of the form: fields present,
\* a known type, an existing account, an unused id
WellFormed(txn, pk, accts, txns) ==
    /\ txn.transaction_id # "" /\ txn.description # "" /\ txn.status # ""
    /\ txn.transaction_type \in {"Deposit", "Withdraw"}
    /\ txn.account_number \in DOMAIN accts
    /\ \A t \in DOMAIN txns : t # pk => txns[t].transaction_id # txn.transaction_id

\* C4: createTransaction of a Withdraw for more than the account's current
\* balance fails and leaves the balance (and both tables) unchanged; the error
\* is the insufficient-funds error whenever the request reaches
\* Transaction.save (always through the model API; through the view when the
\* posted form is otherwise well-formed).
C4_OverdraftRejected ==
    LET txn == last.args.txn
    IN  (/\ Answered(CreateTransactionOps)
         /\ txn.transaction_type = "Withdraw"
         /\ txn.account_number \in DOMAIN last.accounts
         /\ txn.amount > last.accounts[txn.account_number].balance)
        => /\ ~Succeeded
           /\ TablesUnchanged
           /\ (last.op = "Transaction.objects.create"
               \/ WellFormed(txn, None, last.accounts, last.transactions))
              => (last.status = "raised" /\ last.errors = {NotEnoughFunds})

\* an over-balance Withdraw posted to the view has just been refused with the
\* insufficient-funds error, on an account that holds money
C4_Witness ==
    /\ Answered({"TransactionCreateView"})
    /\ last.errors = {NotEnoughFunds}
    /\ last.args.txn.amount > accounts[last.args.txn.account_number].balance
    /\ accounts[last.args.txn.account_number].balance > 0

\* C6 (as claimed): a successful updateTransaction on the same account leaves
\* the balance at the pre-update balance minus the old effect plus the new one.
C6_UpdateAppliesNetEffect ==
    (/\ Answered({"TransactionUpdateView"}) /\ Succeeded
     /\ last.transactions[last.args.pk].account_number = last.args.txn.account_number
     /\ last.transactions[last.args.pk].transaction_type \in {"Deposit", "Withdraw"})
    => LET old == last.transactions[last.args.pk]
           new == last.args.txn
           a == new.account_number
       IN  accounts[a].balance
             = last.accounts[a].balance - Signed(old.transaction_type, old.amount)
               + Signed(new.transaction_type, new.amount)

\* C7 (as claimed): updateTransaction is rejected, leaving both tables as they
\* were, whenever balance - old effect + new effect would be negative.
C7_UpdateRejectedWhenNetNegative ==
    (/\ Answered({"TransactionUpdateView"})
     /\ last.args.pk \in DOMAIN last.transactions
     /\ WellFormed(last.args.txn, last.args.pk, last.accounts, last.transactions)
     /\ last.transactions[last.args.pk].account_number = last.args.txn.account_number
     /\ last.transactions[last.args.pk].transaction_type \in {"Deposit", "Withdraw"}
     /\ LET old == last.transactions[last.args.pk]
            new == last.args.txn
        IN  last.accounts[new.account_number].balance
              - Signed(old.transaction_type, old.amount)
              + Signed(new.transaction_type, new.amount) < 0)
    => ~Succeeded /\ TablesUnchanged

\* C8: deleteTransaction of an existing transaction removes its row and no
\* other, and leaves every account exactly as it was (no reversal).
C8_DeleteTransactionKeepsBalances ==
    (Answered({"TransactionDeleteView"}) /\ Succeeded)
    => /\ \A t \in DOMAIN transactions :
             transactions[t].transaction_id # last.args.transaction_id
       /\ \E t \in DOMAIN last.transactions :
             /\ last.transactions[t].transaction_id = last.args.transaction_id
             /\ DOMAIN transactions = DOMAIN last.transactions \ {t}
       /\ \A t \in DOMAIN transactions : transactions[t] = last.transactions[t]
       /\ accounts = last.accounts

\* a Deposit or Withdraw of a positive amount, applied to an account that
\* still exists, has just been deleted, and another account exists too
C8_Witness ==
    /\ Answered({"TransactionDeleteView"}) /\ Succeeded
    /\ \E t \in DOMAIN last.transactions :
          /\ last.transactions[t].transaction_id = last.args.transaction_id
          /\ last.transactions[t].amount > 0
          /\ last.transactions[t].transaction_type \in {"Deposit", "Withdraw"}
          /\ last.transactions[t].account_number \in DOMAIN accounts
    /\ Cardinality(DOMAIN accounts) = 2

\* C9: after a successful deleteAccount the account is gone and so is every
\* transaction that referenced it; in every state every persisted
\* transaction references an existing account.
C9_NoOrphanTransactions ==
    /\ \A t \in DOMAIN transactions : transactions[t].account_number \in DOMAIN accounts
    /\ (Answered({"AccountDeleteView"}) /\ Succeeded)
       => /\ \A p \in DOMAIN accounts :
                accounts[p].account_number # last.args.account_number
          /\ \E p \in DOMAIN last.accounts :
                /\ last.accounts[p].account_number = last.args.account_number
                /\ p \notin DOMAIN accounts
                /\ \A t \in DOMAIN transactions : transactions[t].account_number # p

\* an account with a transaction has just been deleted, while another
\* account keeps its own transaction
C9_Witness ==
    /\ Answered({"AccountDeleteView"}) /\ Succeeded
    /\ \E t \in DOMAIN last.transactions :
          last.transactions[t].account_number \notin DOMAIN accounts
    /\ transactions # <<>>

InvalidBalanceErrors ==
    {"Balance must be greater than 0 for new accounts",
     "ValidationError: Balance can not be negative"}

\* C10 (as claimed): createAccount with balance <= 0 fails with the
\* invalid-balance error and persists no account row, on every creation path.
C10_NonPositiveOpeningBalanceRejected ==
    (Answered(CreateAccountOps) /\ last.args.obj.balance <= 0)
    => /\ ~Succeeded
       /\ accounts = last.accounts
       /\ last.errors \cap InvalidBalanceErrors # {}

\* ---------------------------------------------- side by side (SpecConcurrent)
Running(h) == pc[h] \in {"save", "update_balance"}

\* C3 (as claimed): of two concurrent Withdraw creates on one account, each
\* within the balance the handlers started from but together above it,
\* exactly one succeeds and the other fails with the insufficient-funds
\* error, under every interleaving.
C3_NoDoubleSpend ==
    \A h1, h2 \in Handlers :
        (/\ h1 # h2 /\ pc[h1] = "done" /\ pc[h2] = "done"
         /\ mem[h1].txn.transaction_type = "Withdraw"
         /\ mem[h2].txn.transaction_type = "Withdraw"
         /\ mem[h1].txn.account_number = mem[h2].txn.account_number
         /\ mem[h1].txn.transaction_id # mem[h2].txn.transaction_id
         /\ LET b == last.accounts[mem[h1].txn.account_number].balance
            IN  /\ mem[h1].txn.amount <= b /\ mem[h2].txn.amount <= b
                /\ mem[h1].txn.amount + mem[h2].txn.amount > b)
        => \/ mem[h1].status = "201" /\ mem[h2].errors = {NotEnoughFunds}
           \/ mem[h2].status = "201" /\ mem[h1].errors = {NotEnoughFunds}

RECURSIVE SumSigned(_, _)
\* the sum of the signed amounts of the rows in ts of table txns
SumSigned(txns, ts) ==
    IF ts = {} THEN 0
    ELSE LET t == CHOOSE x \in ts : TRUE
         IN  Signed(txns[t].transaction_type, txns[t].amount)
               + SumSigned(txns, ts \ {t})

\* C5 (as claimed): whenever no handler is between its writes (crashed
\* handlers included), the rows of the transaction table and the balance
\* effects applied are the same: every balance is the balance the run started
\* from plus the signed amounts of the account's rows.
C5_RowIffEffect ==
    (\A h \in Handlers : ~Running(h))
    => \A a \in DOMAIN accounts :
          accounts[a].balance
            = last.accounts[a].balance
              + SumSigned(transactions,
                          {t \in DOMAIN transactions : transactions[t].account_number = a})

\* ------------------------------------------ one after another (Spec), continued
ViewOps ==
    {"AccountCreateView", "AccountUpdateView", "AccountDeleteView",
     "TransactionCreateView", "TransactionUpdateView", "TransactionDeleteView"}

\* C11: no two persisted accounts share an account number; createAccount with
\* a number that exists fails, leaves the account table (so the existing
\* account's fields) as it was, and reports the duplicate: the form's unique
\* error through the view, IntegrityError through Account.objects.create
\* (when Account.save's own balance check lets the INSERT happen).
C11_AccountNumbersUnique ==
    /\ \A p, q \in DOMAIN accounts :
          p # q => accounts[p].account_number # accounts[q].account_number
    /\ (/\ Answered(CreateAccountOps)
        /\ \E p \in DOMAIN last.accounts :
              last.accounts[p].account_number = last.args.obj.account_number)
       => /\ ~Succeeded
          /\ accounts = last.accounts
          /\ last.op = "AccountCreateView" => "account_number: unique" \in last.errors
          /\ (last.op = "Account.objects.create" /\ last.args.obj.balance >= 0)
             => last.errors = {"IntegrityError"}

\* a second create of an existing number, with another balance, has just
\* been refused as a duplicate
C11_Witness ==
    /\ Answered(CreateAccountOps)
    /\ last.errors \cap {"account_number: unique", "IntegrityError"} # {}
    /\ \E p \in DOMAIN accounts :
          /\ accounts[p].account_number = last.args.obj.account_number
          /\ accounts[p].balance # last.args.obj.balance

\* C12: a command that is answered with an error leaves both tables exactly
\* as it found them.
C12_RejectedLeavesStateUnchanged ==
    (last.op # "none" /\ ~Succeeded) => TablesUnchanged

\* an update of an existing transaction to a Withdraw above the balance has
\* just been refused inside Transaction.save, after the form had accepted it
C12_Witness ==
    /\ Answered({"TransactionUpdateView"})
    /\ last.status = "raised"
    /\ last.errors = {NotEnoughFunds}
    /\ last.args.pk \in DOMAIN transactions
    /\ transactions[last.args.pk] # last.args.txn

\* C13 (as claimed): no request to a view ends in an exception that leaves
\* the view uncaught.
C13_NoUncaughtException ==
    Answered(ViewOps) => last.status # "raised"

\* C14: no persisted transaction has a negative amount; createTransaction and
\* updateTransaction with amount < 0 fail for either type and leave both
\* tables (rows and balances) as they were.
C14_NegativeAmountRejected ==
    /\ \A t \in DOMAIN transactions : transactions[t].amount >= 0
    /\ (/\ Answered(CreateTransactionOps \cup {"TransactionUpdateView"})
        /\ last.args.txn.amount < 0)
       => ~Succeeded /\ TablesUnchanged

\* an update of an existing Deposit to a negative Deposit has just been
\* refused by Transaction.save
C14_Witness ==
    /\ Answered({"TransactionUpdateView"})
    /\ last.args.txn.amount < 0
    /\ last.args.txn.transaction_type = "Deposit"
    /\ last.errors = {"ValueError: Amount cannot be negative"}
    /\ last.args.pk \in DOMAIN transactions
    /\ transactions[last.args.pk].transaction_type = "Deposit"

\* C15: no two persisted transactions share a transaction id;
\* createTransaction with an id that exists fails, adds no row and changes no
\* balance, and reports the duplicate: the form's unique error through the
\* view, IntegrityError through Transaction.objects.create (when
\* Transaction.save's own checks let the INSERT happen).
C15_TransactionIdsUnique ==
    /\ \A t, u \in DOMAIN transactions :
          t # u => transactions[t].transaction_id # transactions[u].transaction_id
    /\ (/\ Answered(CreateTransactionOps)
        /\ \E t \in DOMAIN last.transactions :
              last.transactions[t].transaction_id = last.args.txn.transaction_id)
       => /\ ~Succeeded
          /\ TablesUnchanged
          /\ last.op = "TransactionCreateView" => "transaction_id: unique" \in last.errors
          /\ (/\ last.op = "Transaction.objects.create"
              /\ last.args.txn.account_number \in DOMAIN last.accounts
              /\ last.args.txn.amount >= 0
              /\ ~(/\ last.args.txn.transaction_type = "Withdraw"
                   /\ last.args.txn.amount
                        > last.accounts[last.args.txn.account_number].balance))
             => last.errors = {"IntegrityError"}

\* a Deposit re-using the id of a persisted transaction has just been
\* refused as a duplicate
C15_Witness ==
    /\ Answered(CreateTransactionOps)
    /\ last.errors \cap {"transaction_id: unique", "IntegrityError"} # {}
    /\ last.args.txn.transaction_type = "Deposit"
    /\ last.args.txn.amount > 0
    /\ \E t \in DOMAIN transactions :
          transactions[t].transaction_id = last.args.txn.transaction_id

\* C16: createTransaction naming an account that does not exist fails with
\* the account-not-found error (the form's invalid choice through the view,
\* Account.DoesNotExist from the lookup through the model API), adds no row
\* and changes no balance.
C16_UnknownAccountRejected ==
    (/\ Answered(CreateTransactionOps)
     /\ last.args.txn.account_number \notin DOMAIN last.accounts)
    => /\ ~Succeeded
       /\ TablesUnchanged
       /\ last.op = "TransactionCreateView"
          => "account_number: invalid_choice" \in last.errors
       /\ last.op = "Transaction.objects.create"
          => last.errors = {"Account.DoesNotExist"}

\* a Deposit posted for a missing account, while another account exists, has
\* just been refused for that reason alone
C16_Witness ==
    /\ Answered({"TransactionCreateView"})
    /\ last.args.txn.account_number \notin DOMAIN accounts
    /\ accounts # <<>>
    /\ last.errors = {"account_number: invalid_choice"}

\* C17 (as claimed): every persisted transaction has type Deposit or Withdraw.
C17_OnlyDepositOrWithdrawPersisted ==
    \A t \in DOMAIN transactions :
        transactions[t].transaction_type \in {"Deposit", "Withdraw"}

\* C18: deleteAccount and deleteTransaction for a key that no row has answer
\* 404 and leave both tables as they were.
C18_DeleteOfMissingKeyDeletesNothing ==
    /\ (/\ Answered({"AccountDeleteView"})
        /\ \A p \in DOMAIN last.accounts :
              last.accounts[p].account_number # last.args.account_number)
       => last.status = "404" /\ TablesUnchanged
    /\ (/\ Answered({"TransactionDeleteView"})
        /\ \A t \in DOMAIN last.transactions :
              last.transactions[t].transaction_id # last.args.transaction_id)
       => last.status = "404" /\ TablesUnchanged

\* a delete of a transaction id that no row has, while a transaction with
\* another id exists, has just been answered 404
C18_Witness ==
    /\ Answered({"TransactionDeleteView"})
    /\ last.status = "404"
    /\ transactions # <<>>
    /\ accounts # <<>>

\* C21 (as claimed): a successful updateAccount leaves the account with the
\* account number it had.
C21_AccountNumberImmutable ==
    (Answered({"AccountUpdateView"}) /\ Succeeded)
    => accounts[last.args.pk].account_number
         = last.accounts[last.args.pk].account_number

\* C22 (as claimed): a successful updateTransaction leaves the transaction on
\* the account it was on, and changes the balance of no other account.
C22_TransactionAccountImmutable ==
    (Answered({"TransactionUpdateView"}) /\ Succeeded)
    => /\ transactions[last.args.pk].account_number
            = last.transactions[last.args.pk].account_number
       /\ \A a \in DOMAIN accounts :
             a # last.transactions[last.args.pk].account_number
             => accounts[a] = last.accounts[a]

\* C23 (as claimed): a successful updateTransaction leaves the transaction
\* with the transaction id it had.
C23_TransactionIdImmutable ==
    (Answered({"TransactionUpdateView"}) /\ Succeeded)
    => transactions[last.args.pk].transaction_id
         = last.transactions[last.args.pk].transaction_id

\* C24: a Withdraw createTransaction (otherwise well-formed) for exactly the
\* account's balance succeeds and leaves the balance at 0.
C24_WithdrawOfWholeBalance ==
    (/\ Answered(CreateTransactionOps)
     /\ WellFormed(last.args.txn, None, last.accounts, last.transactions)
     /\ last.args.txn.transaction_type = "Withdraw"
     /\ last.args.txn.amount = last.accounts[last.args.txn.account_number].balance)
    => /\ Succeeded
       /\ accounts[last.args.txn.account_number].balance = 0
       /\ \E t \in DOMAIN transactions : transactions[t] = last.args.txn

\* Transaction.objects.create has just withdrawn the whole balance of an
\* account that had a transaction before
C24_Witness ==
    /\ Answered({"Transaction.objects.create"}) /\ Succeeded
    /\ last.args.txn.transaction_type = "Withdraw"
    /\ last.args.txn.amount = last.accounts[last.args.txn.account_number].balance
    /\ last.transactions # <<>>
    /\ accounts[last.args.txn.account_number].balance = 0

\* the kind of error each message stands for
ErrorKind(e) ==
    CASE e = "ValueError: Amount cannot be negative" -> "InvalidAmount"
      [] e \in {"transaction_id: unique", "IntegrityError"} -> "DuplicateTransaction"
      [] e \in {"description: required", "status: required",
                "transaction_id: required"} -> "InvalidField"
      [] e \in {"account_number: invalid_choice", "Account.DoesNotExist"} -> "AccountNotFound"
      [] e = NotEnoughFunds -> "InsufficientFunds"
      [] OTHER -> "Other"

\* the first rule a createTransaction breaks, in the order amount, id
\* uniqueness, description/status, account, funds
FirstFailingStep(txn, accts, txns) ==
    IF txn.amount < 0 THEN "InvalidAmount"
    ELSE IF \E t \in DOMAIN txns : txns[t].transaction_id = txn.transaction_id
    THEN "DuplicateTransaction"
    ELSE IF txn.description = "" \/ txn.status = "" THEN "InvalidField"
    ELSE IF txn.account_number \notin DOMAIN accts THEN "AccountNotFound"
    ELSE IF txn.transaction_type = "Withdraw" /\ txn.amount > accts[txn.account_number].balance
    THEN "InsufficientFunds"
    ELSE "None"

\* C26 (as claimed): a createTransaction (of type Deposit or Withdraw) that
\* breaks one or more rules reports the error of the first failing step, and
\* only that one.
C26_EarliestErrorReported ==
    (/\ Answered(CreateTransactionOps)
     /\ last.args.txn.transaction_type \in TRANSACTION_TYPE_CHOICES
     /\ FirstFailingStep(last.args.txn, last.accounts, last.transactions) # "None")
    => {ErrorKind(e) : e \in last.errors}
         = {FirstFailingStep(last.args.txn, last.accounts, last.transactions)}

\* C28: a successful updateTransaction adds the whole effect of the posted
\* type and amount to the balance the posted account had, the stored
\* transaction's earlier effect staying in place (so posting a transaction's
\* own fields again applies its effect once more); no other account changes.
C28_UpdateReappliesWholeEffect ==
    (Answered({"TransactionUpdateView"}) /\ Succeeded)
    => LET a == last.args.txn.account_number
       IN  /\ accounts[a].balance
                = last.accounts[a].balance
                  + Signed(last.args.txn.transaction_type, last.args.txn.amount)
           /\ \A b \in DOMAIN accounts : b # a => accounts[b] = last.accounts[b]
           /\ transactions[last.args.pk] = last.args.txn

\* a Deposit has just been updated with its own unchanged fields, and the
\* balance has gone up by its amount again
C28_Witness ==
    /\ Answered({"TransactionUpdateView"}) /\ Succeeded
    /\ last.args.txn = last.transactions[last.args.pk]
    /\ last.args.txn.transaction_type = "Deposit"
    /\ accounts[last.args.txn.account_number].balance
         > last.accounts[last.args.txn.account_number].balance

\* the account a transaction command is about: the account of the stored
\* transaction for an update or a delete, the named account for a create
AccountOf(l) ==
    IF l.op \in CreateTransactionOps THEN l.args.txn.account_number
    ELSE IF l.op = "TransactionUpdateView"
    THEN (IF l.args.pk \in DOMAIN l.transactions
          THEN l.transactions[l.args.pk].account_number ELSE None)
    ELSE LET found == TransactionById(l.transactions, l.args.transaction_id)
         IN  IF found = {} THEN None
             ELSE l.transactions[CHOOSE t \in found : TRUE].account_number

\* the rows a transaction command may write: the updated row, none for a
\* create (its row is new) or a delete (its row is gone)
RowOf(l) == IF l.op = "TransactionUpdateView" THEN l.args.pk ELSE None

\* C29 (as claimed): createTransaction, updateTransaction and
\* deleteTransaction on a transaction of account A leave every other account
\* and every other transaction as they were.
C29_OtherRecordsUnchanged ==
    Answered(CreateTransactionOps \cup {"TransactionUpdateView", "TransactionDeleteView"})
    => /\ DOMAIN accounts = DOMAIN last.accounts
       /\ \A a \in DOMAIN accounts : a # AccountOf(last) => accounts[a] = last.accounts[a]
       /\ \A t \in DOMAIN transactions \cap DOMAIN last.transactions :
             t # RowOf(last) => transactions[t] = last.transactions[t]

\* a posted account body that breaks no rule of the form for the row pk
AccountWellFormed(obj, pk, accts) ==
    /\ obj.account_number # "" /\ obj.customer_name # ""
    /\ obj.account_type \in ACCOUNT_TYPE_CHOICES
    /\ \A p \in DOMAIN accts : p # pk => accts[p].account_number # obj.account_number

\* C30: updateAccount of an existing account (otherwise well-formed, or
\* account.save() after setting the balance) succeeds for every balance
\* >= 0, 0 included, sets the balance and writes no transaction row; for a
\* balance < 0 it fails and leaves both tables as they were.
C30_UpdateAccountBalances ==
    LET balance == IF last.op = "account.save" THEN last.args.balance
                   ELSE last.args.obj.balance
    IN  (/\ Answered({"AccountUpdateView", "account.save"})
         /\ last.args.pk \in DOMAIN last.accounts
         /\ last.op = "AccountUpdateView"
            => AccountWellFormed(last.args.obj, last.args.pk, last.accounts))
        => IF balance >= 0
           THEN /\ Succeeded
                /\ accounts[last.args.pk].balance = balance
                /\ transactions = last.transactions
           ELSE ~Succeeded /\ TablesUnchanged

\* the balance of an account that held money has just been set to 0 through
\* AccountUpdateView
C30_Witness ==
    /\ Answered({"AccountUpdateView"}) /\ Succeeded
    /\ last.args.obj.balance = 0
    /\ last.accounts[last.args.pk].balance > 0
    /\ accounts[last.args.pk].balance = 0

\* ------------------------------------ side by side (SpecConcurrent), continued
\* the handlers that have taken a request for account a
HandlersOn(a) == {h \in Handlers : pc[h] # "idle" /\ mem[h].txn.account_number = a}

\* C19 (as claimed): when every handler has created its transaction on one
\* account with success, the account's balance is the balance the handlers
\* started from plus the signed amounts of all of them.
C19_NoLostUpdate ==
    \A a \in DOMAIN accounts :
        (\A h \in Handlers :
            /\ pc[h] = "done" /\ mem[h].status = "201"
            /\ mem[h].txn.account_number = a)
        => accounts[a].balance
             = last.accounts[a].balance + SumSigned(transactions, DOMAIN transactions)

\* C20 (as claimed): a client that is shown a transaction and then its
\* account never sees the account without that transaction's effect, and one
\* that is shown a changed balance then finds the transaction; stated for an
\* account on which a single createTransaction is running.
C20_ReadsSeeWholeCommands ==
    \A i, j \in 1 .. Len(last.args) :
        (i < j /\ last.args[i].status = "200" /\ last.args[j].view # last.args[i].view)
        => /\ (/\ last.args[i].view = "TransactionDetailView"
               /\ last.args[j].status = "200"
               /\ last.args[j].data.account_number
                    = last.accounts[last.args[i].data.account_number].account_number
               /\ Cardinality(HandlersOn(last.args[i].data.account_number)) = 1)
              => last.args[j].data.balance
                   = last.accounts[last.args[i].data.account_number].balance
                     + Signed(last.args[i].data.transaction_type, last.args[i].data.amount)
           /\ (/\ last.args[i].view = "AccountDetailView"
               /\ \E a \in DOMAIN last.accounts, h \in Handlers :
                     /\ last.accounts[a].account_number = last.args[i].data.account_number
                     /\ last.args[i].data.balance # last.accounts[a].balance
                     /\ HandlersOn(a) = {h}
                     /\ last.args[j].key = mem[h].txn.transaction_id
                     /\ TransactionById(transactions, mem[h].txn.transaction_id) # {}
                     /\ \A p \in TransactionById(transactions, mem[h].txn.transaction_id) :
                           transactions[p].account_number = a)
              => last.args[j].status = "200"

\* C27 (as claimed): whenever a handler writes the new balance, the balance
\* it checked and adds the amount to (its in-memory account) is the balance
\* the account has in the table at that moment.
C27_WriteOnCurrentBalance ==
    [][\A h \in Handlers :
          (pc[h] = "update_balance" /\ pc'[h] = "done")
          => mem[h].account.balance = accounts[mem[h].txn.account_number].balance]_vars

\* ------------------------------------------------ running on (SpecLive)
\* C25: every createTransaction a handler has started comes to its end,
\* whatever the other handlers do: either refused with no row of its own, or
\* answered 201 with its row written; nothing waits for anything.
C25_EveryCommandFinishes ==
    \A h \in Handlers :
        (pc[h] \in {"save", "update_balance"})
        ~> (/\ pc[h] = "done"
            /\ mem[h].status = "201" <=> mem[h].txnPk \in DOMAIN transactions)

\* all handlers have finished a create on one and the same account, the first
\* with success and the second refused for lack of funds
C25_Witness ==
    /\ \A h \in Handlers : pc[h] = "done" /\ mem[h].txn.account_number = 1
    /\ mem[1].status = "201"
    /\ mem[2].errors = {NotEnoughFunds}

====
